---- MODULE Spec2Model ----
(***************************************************************************)
(* A model of the two scripts of ccsr-watershed-gis:                       *)
(*   watershed3d.py  - DEM mesh coloured by elevation / NLCD / CDL /       *)
(*                     runoff, or an interactive scene with four toggle    *)
(*                     buttons and a vertical-exaggeration slider, plus an *)
(*                     optional off-screen export;                         *)
(*   dem-pyvista.py  - DEM mesh with a list of draped raster layers.       *)
(*                                                                         *)
(* Numbers.  Elevations and raster codes are integers.  A scale factor     *)
(* (--scale_z, the slider value) is kept in tenths: 10 is 1.0, so the      *)
(* slider range [0.1, 5.0] is 1..50, and a z coordinate is kept in tenths  *)
(* of an elevation unit (elevation * scale-in-tenths).  A colour channel   *)
(* scaled to 0-1 is an exact fraction <<n, d>> in lowest terms.            *)
(*                                                                         *)
(* Library calls (pyvista, rioxarray, rasterio, vtk) are modelled by their *)
(* documented effect on the objects the scripts hold.                      *)
(***************************************************************************)
EXTENDS Integers, Sequences, FiniteSets, TLC

VARIABLES
    script,          \* which script runs: "watershed3d", "dem_pyvista", "lut"
    pc,              \* position of the script
    args,            \* parsed command line: color, export, scale_z
    files,           \* the rasters on disk the script reads
    outDirExists,    \* whether the outputs/ directory exists
    grid,            \* the StructuredGrid: points and named scalar arrays
    plotter,         \* the on-screen scene
    export_plotter,  \* the off-screen scene
    widgets,         \* checkbox buttons present on the plotter, with state
    nlcd_lut,        \* result of create_categorical_lut(nlcd_path)
    cdl_lut,         \* result of create_categorical_lut(cdl_path)
    window,          \* "none", "open", "closed": plotter.show()
    outputs,         \* files written by the export block
    lastEvent,       \* history: the kind of callback that ran last, the
                     \* button clicked last, the slider value applied last
    layers,          \* dem-pyvista: the grid_layer meshes built so far
    palette_in,      \* argument of a single create_categorical_lut call
    lut_out          \* its result

vars == <<script, pc, args, files, outDirExists, grid, plotter, export_plotter,
          widgets, nlcd_lut, cdl_lut, window, outputs, lastEvent, layers,
          palette_in, lut_out>>

----------------------------------------------------------------------------
(* Bounds of the model *)

DemRows == 2
DemCols == 3
NumDems == 1
MaxOverlayDim == 3
MaxSliderPick == 2
MaxLowCode == 1
MaxPaths == 2

(* Program constants *)

NumValues == 256
SliderMin == 1
SliderMax == 50
DefaultScale == 10

----------------------------------------------------------------------------
(* Arrays *)

NoFn == [x \in {} |-> 0]

Shape(a) == <<Len(a), IF Len(a) = 0 THEN 0 ELSE Len(a[1])>>

\* numpy ravel(order='F') of a 2-D array a[row][col]: column after column.
RavelF(a) ==
    LET ny == Len(a)
        nx == IF ny = 0 THEN 0 ELSE Len(a[1])
    IN  [k \in 1..(ny * nx) |-> a[((k - 1) % ny) + 1][((k - 1) \div ny) + 1]]

\* Index of the source cell (of m) whose centre is nearest the centre of
\* target cell i (of n), both grids covering the same extent.
NearestIdx(i, n, m) == (((2 * i - 1) * m) \div (2 * n)) + 1

\* Nearest-neighbour resampling of a 2-D array onto an ny x nx grid.
ResampleNearest(a, ny, nx) ==
    [i \in 1..ny |-> [j \in 1..nx |->
        a[NearestIdx(i, ny, Len(a))][NearestIdx(j, nx, Len(a[1]))]]]

----------------------------------------------------------------------------
(* Rasters on disk *)

DemCrs == "utm"

Elev(k, i, j) == 100 * k + 37 * i + 11 * j

MkDem(k) ==
    [crs |-> DemCrs,
     data |-> [i \in 1..DemRows |-> [j \in 1..DemCols |-> Elev(k, i, j)]]]

DemChoices == {MkDem(k) : k \in 1..NumDems}

Code(i, j) == 11 + 10 * ((i + 2 * j) % 4)

MkOverlay(crs, h, w) ==
    [crs |-> crs, data |-> [i \in 1..h |-> [j \in 1..w |-> Code(i, j)]]]

\* an overlay already on the DEM grid, a coarser one in another reference
\* system, and a finer one in the DEM's reference system
OverlayChoices ==
    {MkOverlay(DemCrs, DemRows, DemCols),
     MkOverlay("albers", 1, 2),
     MkOverlay(DemCrs, MaxOverlayDim, MaxOverlayDim + 1)}

SameGridOverlay == MkOverlay(DemCrs, DemRows, DemCols)

CoarseOverlay == MkOverlay("albers", 1, 2)

FineOverlay == MkOverlay(DemCrs, MaxOverlayDim, MaxOverlayDim + 1)

\* the <<NLCD, CDL, runoff>> files of an interactive run: each layer meets
\* each kind of overlay
OverlayTriples ==
    {<<SameGridOverlay, SameGridOverlay, SameGridOverlay>>,
     <<SameGridOverlay, CoarseOverlay, FineOverlay>>,
     <<CoarseOverlay, FineOverlay, SameGridOverlay>>,
     <<FineOverlay, SameGridOverlay, CoarseOverlay>>}

\* dem.x.values, dem.y.values
XCoord(j) == 500 + 30 * j
YCoord(i) == 900 - 30 * i

----------------------------------------------------------------------------
(* Colormaps *)

RECURSIVE Gcd(_, _)
Gcd(a, b) == IF b = 0 THEN a ELSE Gcd(b, a % b)

\* the float n / d, as an exact fraction in lowest terms
Frac(n, d) == LET g == Gcd(n, d) IN <<n \div g, d \div g>>

\* a row of np.zeros((num_values, 4))
ZeroRow == <<Frac(0, 1), Frac(0, 1), Frac(0, 1), Frac(0, 1)>>

ScaleRowBy256(c) ==
    <<Frac(c[1], 256), Frac(c[2], 256), Frac(c[3], 256), Frac(c[4], 256)>>

\* [r/255.0, g/255.0, b/255.0, a/255.0]
ScaleRow(c) ==
    <<Frac(c[1], 255), Frac(c[2], 255), Frac(c[3], 255), Frac(c[4], 255)>>

\* the loop over colormap.items(): one palette entry at a time
RECURSIVE LutFill(_, _, _, _)
LutFill(lut, keys, colormap, num_values) ==
    IF keys = {} THEN lut
    ELSE LET value == CHOOSE k \in keys : TRUE
             next == IF value < num_values
                     THEN [lut EXCEPT ![value] = ScaleRow(colormap[value])]
                     ELSE lut
         IN  LutFill(next, keys \ {value}, colormap, num_values)

\* matplotlib ListedColormap(colors, N): the first N colours, the list
\* repeated when it is shorter than N
ListedColormap(colors, n) ==
    LET len == Cardinality(DOMAIN colors)
    IN  [kind |-> "listed", name |-> "",
         table |-> [v \in 0..(n - 1) |-> colors[v % len]]]

NoneCmap == [kind |-> "none", name |-> "", table |-> NoFn]

NamedCmap(nm) == [kind |-> "named", name |-> nm, table |-> NoFn]

\* create_categorical_lut(tif_path, num_values=256), given the palette
\* src.colormap(1) returns (the empty palette when the raster carries none)
create_categorical_lut(colormap, num_values) ==
    IF DOMAIN colormap = {} THEN NoneCmap
    ELSE LET zeros == [v \in 0..(num_values - 1) |-> ZeroRow]
             lut == LutFill(zeros, DOMAIN colormap, colormap, num_values)
         IN  ListedColormap(lut, num_values)

(* Palettes *)

ColorChoices == {<<0, 0, 0, 0>>, <<255, 102, 51, 255>>}

PaletteCodes == (0..MaxLowCode) \cup ((NumValues - 1)..(NumValues + MaxLowCode))

\* every palette over a subset of PaletteCodes, the empty one included
AllPalettes ==
    UNION {[S -> ColorChoices] : S \in SUBSET PaletteCodes}

EmptyPalette == NoFn

SamplePalette ==
    (0 :> <<0, 0, 0, 0>>) @@ (11 :> <<70, 107, 159, 255>>)
      @@ (21 :> <<222, 197, 197, 255>>) @@ (NumValues :> <<255, 255, 255, 255>>)

PaletteChoices == {EmptyPalette, SamplePalette}

----------------------------------------------------------------------------
(* Alignment of an overlay with the DEM *)

\* rio.reproject(crs): the raster in the other reference system, on a grid
\* of the library's choosing (here one cell more each way)
reproject(r, crs) ==
    [crs |-> crs,
     data |-> ResampleNearest(r.data, Len(r.data) + 1, Len(r.data[1]) + 1)]

reproject_match_skipped(r, dem) == r

\* rio.reproject_match(dem): the raster on the DEM's exact grid
reproject_match(r, dem) ==
    [crs |-> dem.crs,
     data |-> ResampleNearest(r.data, Len(dem.data), Len(dem.data[1]))]

\* "Reproject if needed", then "Resample to DEM grid"
Align(r, dem) ==
    LET r1 == IF r.crs # dem.crs THEN reproject(r, dem.crs) ELSE r
    IN  reproject_match(r1, dem)

\* raster.interp_like(dem, method="nearest")
interp_like(r, dem) ==
    [crs |-> r.crs,
     data |-> ResampleNearest(r.data, Len(dem.data), Len(dem.data[1]))]

----------------------------------------------------------------------------
(* The mesh *)

\* pv.StructuredGrid(xx, yy, zz * scale) with grid["Elevation"] attached;
\* xx, yy = np.meshgrid(dem.x.values, dem.y.values)
BuildGrid(zz, scale) ==
    LET ny == Len(zz)
        nx == Len(zz[1])
        xx == [i \in 1..ny |-> [j \in 1..nx |-> XCoord(j)]]
        yy == [i \in 1..ny |-> [j \in 1..nx |-> YCoord(i)]]
        zz_geom == [i \in 1..ny |-> [j \in 1..nx |-> zz[i][j] * scale]]
    IN  [points |-> [k \in 1..(ny * nx) |->
                        <<RavelF(xx)[k], RavelF(yy)[k], RavelF(zz_geom)[k]>>],
         data |-> ("Elevation" :> RavelF(zz))]

\* grid[name] = values
SetScalars(g, name, values) == [g EXCEPT !.data = (name :> values) @@ @]

update_elevation_compound(g, zz, value) ==
    [g EXCEPT !.points =
        [k \in DOMAIN g.points |->
            <<g.points[k][1], g.points[k][2], (g.points[k][3] * value) \div 10>>]]

update_elevation_recolor(g, zz, value) ==
    [points |-> [k \in DOMAIN g.points |->
                    <<g.points[k][1], g.points[k][2], RavelF(zz)[k] * value>>],
     data |-> ("Elevation" :> [k \in DOMAIN g.points |-> RavelF(zz)[k] * value])
                @@ g.data]

\* the slider callback: points[:, 2] = zz.ravel(order='F') * value
update_elevation(g, zz, value) ==
    [g EXCEPT !.points =
        [k \in DOMAIN g.points |->
            <<g.points[k][1], g.points[k][2], RavelF(zz)[k] * value>>]]

----------------------------------------------------------------------------
(* Scenes *)

EmptyPlotter == [actors |-> <<>>, scalar_bars |-> {}, unnamed |-> 0]

Terrain == <<"terrain", 0>>

\* plotter.remove_actor(name)
remove_actor(p, name) ==
    LET Keep(a) == a.name # name
    IN  [p EXCEPT !.actors = SelectSeq(p.actors, Keep)]

\* plotter.remove_scalar_bar(): the scene's scalar bar
remove_scalar_bar(p) ==
    IF Cardinality(p.scalar_bars) <= 1
    THEN [p EXCEPT !.scalar_bars = {}]
    ELSE p

\* plotter.add_mesh(mesh, scalars=, cmap=, scalar_bar_args={'title':}, name=):
\* a named actor replaces the actor of that name, an unnamed one is new
add_mesh(p, mesh, scalars, cmap, title, name) ==
    LET nm == IF name = "" THEN <<"", p.unnamed + 1>> ELSE <<name, 0>>
        q == remove_actor(p, nm)
        actor == [name |-> nm, mesh |-> mesh, scalars |-> scalars,
                  cmap |-> cmap, title |-> title]
    IN  [actors |-> Append(q.actors, actor),
         scalar_bars |-> q.scalar_bars \cup {title},
         unnamed |-> IF name = "" THEN p.unnamed + 1 ELSE p.unnamed]

Buttons == {"NLCD", "CDL", "Runoff", "Elevation"}

Colors == {"elevation", "nlcd", "cdl", "runoff", "interactive"}

\* the layer of a --color mode
LayerOfColor(c) ==
    CASE c = "elevation" -> "Elevation"
      [] c = "nlcd" -> "NLCD"
      [] c = "cdl" -> "CDL"
      [] c = "runoff" -> "Runoff"
      [] OTHER -> "NLCD"

\* the object a variable holding a create_categorical_lut result passes as
\* cmap=: None, or a reference to the variable's ListedColormap
Ref(obj, variable) ==
    IF obj.kind = "listed" THEN [kind |-> "listed", name |-> variable,
                                 table |-> NoFn]
    ELSE obj

\* the cmap= argument of the add_mesh call of each layer
CmapArg(layer, nl, cl) ==
    CASE layer = "Elevation" -> NamedCmap("gist_earth")
      [] layer = "NLCD" -> Ref(nl, "nlcd_lut")
      [] layer = "CDL" -> Ref(cl, "cdl_lut")
      [] OTHER -> NamedCmap("viridis_r")

\* the scalar bar title of each layer
TitleArg(layer) ==
    CASE layer = "Elevation" -> "Elevation (m)"
      [] layer = "NLCD" -> "NLCD Landcover"
      [] layer = "CDL" -> "CDL Landcover"
      [] OTHER -> "Runoff Coefficient"

----------------------------------------------------------------------------
(* watershed3d.py *)

NoEvent == [kind |-> "none", button |-> "", value |-> 0]

ScaleChoices == {DefaultScale, 25, 70}

SliderChoices == {SliderMin, SliderMax} \cup {10 * k + 5 : k \in 1..MaxSliderPick}

\* the rasters a --color mode opens
Reads(color) ==
    CASE color = "elevation" -> {}
      [] color = "nlcd" -> {"nlcd"}
      [] color = "cdl" -> {"cdl"}
      [] color = "runoff" -> {"runoff"}
      [] OTHER -> {"nlcd", "cdl", "runoff"}

Init ==
    /\ script = "watershed3d"
    /\ pc = "start"
    /\ args \in [color : Colors, export : BOOLEAN, scale_z : ScaleChoices]
    /\ files \in [dem : DemChoices, nlcd : OverlayChoices, cdl : OverlayChoices,
                  runoff : OverlayChoices, nlcd_pal : PaletteChoices,
                  cdl_pal : PaletteChoices, raster_paths : {<<>>}]
    \* a file the mode never opens is left at one value
    /\ "nlcd" \notin Reads(args.color) =>
          files.nlcd = SameGridOverlay /\ files.nlcd_pal = EmptyPalette
    /\ "cdl" \notin Reads(args.color) =>
          files.cdl = SameGridOverlay /\ files.cdl_pal = EmptyPalette
    /\ "runoff" \notin Reads(args.color) => files.runoff = SameGridOverlay
    /\ args.color = "interactive" =>
          <<files.nlcd, files.cdl, files.runoff>> \in OverlayTriples
    /\ outDirExists \in BOOLEAN
    /\ ~args.export => outDirExists
    /\ grid = [points |-> <<>>, data |-> NoFn]
    /\ plotter = EmptyPlotter
    /\ export_plotter = EmptyPlotter
    /\ widgets = NoFn
    /\ nlcd_lut = NoneCmap
    /\ cdl_lut = NoneCmap
    /\ window = "none"
    /\ outputs = {}
    /\ lastEvent = NoEvent
    /\ layers = <<>>
    /\ palette_in = EmptyPalette
    /\ lut_out = NoneCmap

\* lines 98-235: one overlay loaded, aligned and attached; the same mesh
\* added to the on-screen and to the off-screen plotter
MainSingle ==
    /\ script = "watershed3d" /\ pc = "start"
    /\ args.color # "interactive"
    /\ LET dem == files.dem
           layer == LayerOfColor(args.color)
           g0 == BuildGrid(dem.data, args.scale_z)
           g1 == CASE args.color = "nlcd" ->
                        SetScalars(g0, "NLCD", RavelF(Align(files.nlcd, dem).data))
                   [] args.color = "cdl" ->
                        SetScalars(g0, "CDL", RavelF(Align(files.cdl, dem).data))
                   [] args.color = "runoff" ->
                        SetScalars(g0, "Runoff", RavelF(Align(files.runoff, dem).data))
                   [] OTHER -> g0
           nl == IF args.color = "nlcd"
                 THEN create_categorical_lut(files.nlcd_pal, NumValues)
                 ELSE NoneCmap
           cl == IF args.color = "cdl"
                 THEN create_categorical_lut(files.cdl_pal, NumValues)
                 ELSE NoneCmap
       IN  /\ grid' = g1
           /\ nlcd_lut' = nl
           /\ cdl_lut' = cl
           /\ plotter' = add_mesh(EmptyPlotter, "grid", layer,
                                  CmapArg(layer, nl, cl), TitleArg(layer), "")
           /\ export_plotter' = add_mesh(EmptyPlotter, "grid", layer,
                                  CmapArg(layer, nl, cl), TitleArg(layer), "")
    /\ widgets' = NoFn
    /\ window' = "open"
    /\ pc' = "show"
    /\ UNCHANGED <<script, args, files, outDirExists, outputs, lastEvent,
                   layers, palette_in, lut_out>>

\* lines 237-395: the three overlays attached, the NLCD mesh added to the
\* on-screen plotter as 'terrain', four buttons and the slider
MainInteractive ==
    /\ script = "watershed3d" /\ pc = "start"
    /\ args.color = "interactive"
    /\ LET dem == files.dem
           g0 == BuildGrid(dem.data, args.scale_z)
           g1 == SetScalars(g0, "NLCD", RavelF(Align(files.nlcd, dem).data))
           g2 == SetScalars(g1, "CDL", RavelF(Align(files.cdl, dem).data))
           g3 == SetScalars(g2, "Runoff", RavelF(Align(files.runoff, dem).data))
           nl == create_categorical_lut(files.nlcd_pal, NumValues)
           cl == create_categorical_lut(files.cdl_pal, NumValues)
       IN  /\ grid' = g3
           /\ nlcd_lut' = nl
           /\ cdl_lut' = cl
           /\ plotter' = add_mesh(EmptyPlotter, "grid", "NLCD",
                                  CmapArg("NLCD", nl, cl), TitleArg("NLCD"),
                                  "terrain")
    /\ export_plotter' = EmptyPlotter
    /\ widgets' = ("NLCD" :> 1) @@ ("CDL" :> 0) @@ ("Runoff" :> 0)
                    @@ ("Elevation" :> 0)
    /\ window' = "open"
    /\ pc' = "show"
    /\ UNCHANGED <<script, args, files, outDirExists, outputs, lastEvent,
                   layers, palette_in, lut_out>>

show_keeps_old(p, layer, nl, cl) ==
    add_mesh(p, "grid", layer, CmapArg(layer, nl, cl), TitleArg(layer), "")

\* show_nlcd / show_cdl / show_runoff / show_elevation, the scene part:
\* remove 'terrain', remove the scalar bar, add the mesh as 'terrain'
show(p, layer, nl, cl) ==
    LET p1 == remove_actor(p, Terrain)
        p2 == remove_scalar_bar(p1)
    IN  add_mesh(p2, "grid", layer, CmapArg(layer, nl, cl), TitleArg(layer),
                 "terrain")

\* the same callbacks, the "Uncheck other buttons" part: SetState(0) on
\* each other widget the plotter has
Uncheck(w, b) == [x \in DOMAIN w |-> IF x # b THEN 0 ELSE w[x]]

Click_RebuildsGrid(b) ==
    /\ script = "watershed3d" /\ pc = "show"
    /\ b \in DOMAIN widgets
    /\ LET pressed == [widgets EXCEPT ![b] = 1 - @]
       IN  /\ plotter' = show(plotter, b, nlcd_lut, cdl_lut)
           /\ widgets' = Uncheck(pressed, b)
           /\ lastEvent' = [kind |-> "click", button |-> b,
                            value |-> lastEvent.value]
    /\ grid' = [grid EXCEPT !.points =
                   BuildGrid(files.dem.data, args.scale_z).points]
    /\ UNCHANGED <<script, pc, args, files, outDirExists, export_plotter,
                   nlcd_lut, cdl_lut, window, outputs, layers, palette_in,
                   lut_out>>

\* a click on checkbox button b: the button widget moves to its next state
\* (on <-> off), then its callback runs with the new state
Click(b) ==
    /\ script = "watershed3d" /\ pc = "show"
    /\ b \in DOMAIN widgets
    /\ LET pressed == [widgets EXCEPT ![b] = 1 - @]
       IN  /\ plotter' = show(plotter, b, nlcd_lut, cdl_lut)
           /\ widgets' = Uncheck(pressed, b)
           /\ lastEvent' = [kind |-> "click", button |-> b,
                            value |-> lastEvent.value]
    /\ UNCHANGED <<script, pc, args, files, outDirExists, grid, export_plotter,
                   nlcd_lut, cdl_lut, window, outputs, layers, palette_in,
                   lut_out>>

\* the slider moved to value v: update_elevation(v), then render
Slide(v) ==
    /\ script = "watershed3d" /\ pc = "show"
    /\ args.color = "interactive"
    /\ grid' = update_elevation(grid, files.dem.data, v)
    /\ lastEvent' = [kind |-> "slide", button |-> lastEvent.button,
                     value |-> v]
    /\ UNCHANGED <<script, pc, args, files, outDirExists, plotter,
                   export_plotter, widgets, nlcd_lut, cdl_lut, window, outputs,
                   layers, palette_in, lut_out>>

\* the window is closed: plotter.show() returns
CloseWindow ==
    /\ pc = "show"
    /\ window' = "closed"
    /\ pc' = "closed"
    /\ UNCHANGED <<script, args, files, outDirExists, grid, plotter,
                   export_plotter, widgets, nlcd_lut, cdl_lut, outputs,
                   lastEvent, layers, palette_in, lut_out>>

\* what an export call writes: the off-screen scene, under the mode's name
Written(ext) ==
    [path |-> <<"outputs", "watershed_dem_", args.color, ext>>,
     scene |-> export_plotter.actors]

ExportHtml_NoFlag ==
    /\ script = "watershed3d" /\ pc = "closed"
    /\ IF outDirExists
       THEN outputs' = outputs \cup {Written(".html")} /\ pc' = "png"
       ELSE outputs' = outputs /\ pc' = "aborted"
    /\ UNCHANGED <<script, args, files, outDirExists, grid, plotter,
                   export_plotter, widgets, nlcd_lut, cdl_lut, window,
                   lastEvent, layers, palette_in, lut_out>>

\* if args.export: export_plotter.export_html(filename + ".html")
ExportHtml ==
    /\ script = "watershed3d" /\ pc = "closed"
    /\ args.export
    /\ IF outDirExists
       THEN outputs' = outputs \cup {Written(".html")} /\ pc' = "png"
       ELSE outputs' = outputs /\ pc' = "aborted"
    /\ UNCHANGED <<script, args, files, outDirExists, grid, plotter,
                   export_plotter, widgets, nlcd_lut, cdl_lut, window,
                   lastEvent, layers, palette_in, lut_out>>

\* export_plotter.screenshot(filename + ".png")
ExportPng ==
    /\ script = "watershed3d" /\ pc = "png"
    /\ outputs' = outputs \cup {Written(".png")}
    /\ pc' = "done"
    /\ UNCHANGED <<script, args, files, outDirExists, grid, plotter,
                   export_plotter, widgets, nlcd_lut, cdl_lut, window,
                   lastEvent, layers, palette_in, lut_out>>

\* the script ends without exporting
Finish ==
    /\ pc = "closed"
    /\ script = "watershed3d" => ~args.export
    /\ pc' = "done"
    /\ UNCHANGED <<script, args, files, outDirExists, grid, plotter,
                   export_plotter, widgets, nlcd_lut, cdl_lut, window, outputs,
                   lastEvent, layers, palette_in, lut_out>>

----------------------------------------------------------------------------
(* dem-pyvista.py *)

raster_cmaps == <<"viridis", "tab20">>

raster_opacities == <<10, 6>>

Min(a, b) == IF a < b THEN a ELSE b

\* every list of at most MaxPaths overlay rasters
PathLists ==
    UNION {[1..n -> OverlayChoices] : n \in 0..MaxPaths}

InitDem ==
    /\ script = "dem_pyvista"
    /\ pc = "start"
    /\ args = [color |-> "elevation", export |-> FALSE, scale_z |-> DefaultScale]
    /\ files \in [dem : DemChoices, nlcd : {SameGridOverlay},
                  cdl : {SameGridOverlay}, runoff : {SameGridOverlay},
                  nlcd_pal : {EmptyPalette}, cdl_pal : {EmptyPalette},
                  raster_paths : PathLists]
    /\ outDirExists = TRUE
    /\ grid = [points |-> <<>>, data |-> NoFn]
    /\ plotter = EmptyPlotter
    /\ export_plotter = EmptyPlotter
    /\ widgets = NoFn
    /\ nlcd_lut = NoneCmap
    /\ cdl_lut = NoneCmap
    /\ window = "none"
    /\ outputs = {}
    /\ lastEvent = NoEvent
    /\ layers = <<>>
    /\ palette_in = EmptyPalette
    /\ lut_out = NoneCmap

\* lines 37-62: the DEM mesh, coloured by elevation
DemMain ==
    /\ script = "dem_pyvista" /\ pc = "start"
    /\ grid' = BuildGrid(files.dem.data, DefaultScale)
    /\ plotter' = add_mesh(EmptyPlotter, "grid", "Elevation",
                           NamedCmap("gist_earth"), "Elevation (m)", "")
    /\ pc' = "loop"
    /\ UNCHANGED <<script, args, files, outDirExists, export_plotter, widgets,
                   nlcd_lut, cdl_lut, window, outputs, lastEvent, layers,
                   palette_in, lut_out>>

\* the iterations zip(raster_paths, raster_cmaps, raster_opacities) makes
ZipLen == Min(Len(files.raster_paths), Min(Len(raster_cmaps), Len(raster_opacities)))

\* "Resample raster if dimensions differ"
Resampled(raster, dem) ==
    IF Shape(raster.data) # Shape(dem.data) THEN interp_like(raster, dem)
    ELSE raster

\* lines 67-84: one iteration of the raster layer loop
DemLayer ==
    /\ script = "dem_pyvista" /\ pc = "loop"
    /\ Len(layers) < ZipLen
    /\ LET i == Len(layers) + 1
           dem == files.dem
           raster == Resampled(files.raster_paths[i], dem)
           \* StructuredGrid(xx, yy, zz + 0.01)
           grid_layer == [points |-> grid.points, offset |-> 1,
                          data |-> ("values" :> RavelF(raster.data))]
       IN  /\ layers' = Append(layers, grid_layer)
           /\ plotter' = add_mesh(plotter, "grid_layer", "values",
                                  NamedCmap(raster_cmaps[i]), "values", "")
    /\ UNCHANGED <<script, pc, args, files, outDirExists, grid, export_plotter,
                   widgets, nlcd_lut, cdl_lut, window, outputs, lastEvent,
                   palette_in, lut_out>>

\* lines 89-91: the loop is over, plotter.show()
DemShow ==
    /\ script = "dem_pyvista" /\ pc = "loop"
    /\ Len(layers) = ZipLen
    /\ window' = "open"
    /\ pc' = "show"
    /\ UNCHANGED <<script, args, files, outDirExists, grid, plotter,
                   export_plotter, widgets, nlcd_lut, cdl_lut, outputs,
                   lastEvent, layers, palette_in, lut_out>>

----------------------------------------------------------------------------
(* create_categorical_lut alone, on every palette of the bounded set *)

InitLut ==
    /\ script = "lut"
    /\ pc = "start"
    /\ args = [color |-> "nlcd", export |-> FALSE, scale_z |-> DefaultScale]
    /\ files = [dem |-> MkDem(1), nlcd |-> SameGridOverlay,
                cdl |-> SameGridOverlay, runoff |-> SameGridOverlay,
                nlcd_pal |-> EmptyPalette, cdl_pal |-> EmptyPalette,
                raster_paths |-> <<>>]
    /\ outDirExists = TRUE
    /\ grid = [points |-> <<>>, data |-> NoFn]
    /\ plotter = EmptyPlotter
    /\ export_plotter = EmptyPlotter
    /\ widgets = NoFn
    /\ nlcd_lut = NoneCmap
    /\ cdl_lut = NoneCmap
    /\ window = "none"
    /\ outputs = {}
    /\ lastEvent = NoEvent
    /\ layers = <<>>
    /\ palette_in \in AllPalettes
    /\ lut_out = NoneCmap

CallLut ==
    /\ script = "lut" /\ pc = "start"
    /\ lut_out' = create_categorical_lut(palette_in, NumValues)
    /\ pc' = "done"
    /\ UNCHANGED <<script, args, files, outDirExists, grid, plotter,
                   export_plotter, widgets, nlcd_lut, cdl_lut, window, outputs,
                   lastEvent, layers, palette_in>>

----------------------------------------------------------------------------
(* Specifications *)

Next ==
    \/ MainSingle
    \/ MainInteractive
    \/ \E b \in Buttons : Click(b)
    \/ \E v \in SliderChoices : Slide(v)
    \/ CloseWindow
    \/ ExportHtml
    \/ ExportPng
    \/ Finish
    \/ DemMain
    \/ DemLayer
    \/ DemShow

NextLut == CallLut

\* both scripts
Spec == (Init \/ InitDem) /\ [][Next]_vars

\* the lookup-table builder on its own
SpecLut == InitLut /\ [][NextLut]_vars

----------------------------------------------------------------------------
(* Properties *)

Ny == Len(files.dem.data)
Nx == Len(files.dem.data[1])

\* the index of DEM cell (row i, column j) among the mesh points
PointOf(i, j) == (j - 1) * Ny + i

Interactive ==
    script = "watershed3d" /\ args.color = "interactive" /\ pc # "start"

Selected == {b \in DOMAIN widgets : widgets[b] = 1}

\* the layer on display: that of the button clicked last, NLCD before any click
Shown == IF lastEvent.button = "" THEN "NLCD" ELSE lastEvent.button

\* C1: in interactive mode exactly one of the four buttons is selected, after
\* the initial load and after any sequence of clicks.
C1_ExactlyOneSelected ==
    Interactive => Cardinality(Selected) = 1

\* C2: whatever --color mode, every exported file holds a scene with the
\* terrain mesh, coloured by the attribute and colormap of the scene shown;
\* never an empty scene.
C2_ExportSceneMatchesShown ==
    \A f \in outputs :
        /\ f.scene # <<>>
        /\ \E k \in 1..Len(f.scene) : \E m \in 1..Len(plotter.actors) :
              /\ f.scene[k].mesh = "grid"
              /\ f.scene[k].scalars = plotter.actors[m].scalars
              /\ f.scene[k].cmap = plotter.actors[m].cmap

\* C3: in interactive mode the scene holds exactly one mesh representation,
\* named 'terrain', showing the attribute and colormap of the button
\* activated last (NLCD with the NLCD table before any click), with that
\* layer's scalar bar and no other.
C3_OneTerrainOfLastButton ==
    Interactive =>
        /\ Len(plotter.actors) = 1
        /\ plotter.actors[1].name = Terrain
        /\ plotter.actors[1].mesh = "grid"
        /\ plotter.actors[1].scalars = Shown
        /\ plotter.actors[1].cmap =
              (CASE Shown = "NLCD" ->
                      IF nlcd_lut.kind = "listed"
                      THEN [kind |-> "listed", name |-> "nlcd_lut", table |-> NoFn]
                      ELSE NoneCmap
                 [] Shown = "CDL" ->
                      IF cdl_lut.kind = "listed"
                      THEN [kind |-> "listed", name |-> "cdl_lut", table |-> NoFn]
                      ELSE NoneCmap
                 [] Shown = "Runoff" -> NamedCmap("viridis_r")
                 [] OTHER -> NamedCmap("gist_earth"))
        /\ Cardinality(plotter.scalar_bars) = 1
        /\ plotter.actors[1].title \in plotter.scalar_bars

C3_Witness ==
    /\ Interactive /\ pc = "show"
    /\ lastEvent.kind = "click" /\ lastEvent.button = "CDL"
    /\ cdl_lut.kind = "listed"
    /\ plotter.actors[1].scalars = "CDL"

\* C4: once the slider callback has run with value s, every mesh point is
\* (x, y, base elevation * s): the scale replaces the earlier one, x and y
\* are those of the DEM cell.
C4_SliderScalesBase ==
    (Interactive /\ lastEvent.kind = "slide") =>
        \A i \in 1..Ny : \A j \in 1..Nx :
            grid.points[PointOf(i, j)] =
                <<XCoord(j), YCoord(i), files.dem.data[i][j] * lastEvent.value>>

C4_Witness ==
    /\ Interactive /\ lastEvent.kind = "slide"
    /\ args.scale_z = 25
    /\ lastEvent.value = SliderMax
    /\ lastEvent.button = "Elevation"

\* C5: the "Elevation" attribute holds the unscaled DEM elevations, whatever
\* --scale_z, the slider and the buttons did.
C5_ElevationUnscaled ==
    (script \in {"watershed3d", "dem_pyvista"} /\ pc # "start") =>
        \A i \in 1..Ny : \A j \in 1..Nx :
            grid.data["Elevation"][PointOf(i, j)] = files.dem.data[i][j]

C5_Witness ==
    /\ Interactive
    /\ args.scale_z = 25
    /\ lastEvent.value = SliderMin
    /\ lastEvent.button = "Elevation"
    /\ grid.points[1][3] = files.dem.data[1][1] * SliderMin

\* C6: for a raster with a palette the result is a table of exactly 256 RGBA
\* rows; row v is the palette colour of code v divided by 255 for every
\* palette code v below 256, and all zero for every other v (so a palette
\* code of 256 or more changes no row).
C6_LutTable ==
    (script = "lut" /\ pc = "done" /\ DOMAIN palette_in # {}) =>
        /\ lut_out.kind = "listed"
        /\ DOMAIN lut_out.table = 0..255
        /\ \A v \in 0..255 : \A c \in 1..4 :
              LET q == lut_out.table[v][c]
              IN  /\ q[2] > 0
                  /\ IF v \in DOMAIN palette_in
                     THEN q[1] * 255 = palette_in[v][c] * q[2]
                     ELSE q[1] = 0

C6_Witness ==
    /\ script = "lut" /\ pc = "done"
    /\ DOMAIN palette_in = {1, 255, 256}
    /\ palette_in[1] = <<255, 102, 51, 255>>
    /\ palette_in[256] = <<255, 102, 51, 255>>
    /\ lut_out.table[1] = <<<<1, 1>>, <<2, 5>>, <<1, 5>>, <<1, 1>>>>
    /\ lut_out.table[0] = <<<<0, 1>>, <<0, 1>>, <<0, 1>>, <<0, 1>>>>

\* matplotlib's qualitative colormaps
QualitativeCmaps ==
    {"Pastel1", "Pastel2", "Paired", "Accent", "Dark2", "Set1", "Set2", "Set3",
     "tab10", "tab20", "tab20b", "tab20c"}

\* C7: when the NLCD (CDL) raster carries no palette, the builder returns an
\* absent result and the layer's mesh is given a default qualitative colormap.
C7_QualitativeFallback ==
    (script = "watershed3d" /\ pc # "start") =>
        \A k \in 1..Len(plotter.actors) :
            LET a == plotter.actors[k]
            IN  /\ (a.scalars = "NLCD" /\ files.nlcd_pal = EmptyPalette) =>
                      /\ nlcd_lut = NoneCmap
                      /\ a.cmap.kind = "named"
                      /\ a.cmap.name \in QualitativeCmaps
                /\ (a.scalars = "CDL" /\ files.cdl_pal = EmptyPalette) =>
                      /\ cdl_lut = NoneCmap
                      /\ a.cmap.kind = "named"
                      /\ a.cmap.name \in QualitativeCmaps

\* C8: a file is written, or a write attempted, only when --export was given
\* and only once the interactive window has been shown and closed.
C8_ExportOnlyAfterShow ==
    (outputs # {} \/ pc \in {"png", "aborted"}) =>
        /\ args.export
        /\ window = "closed"

C8_Witness ==
    /\ Interactive
    /\ lastEvent.kind = "click"
    /\ Cardinality(outputs) = 2

\* C9: every overlay attribute on the mesh (NLCD, CDL, Runoff; "values" of a
\* dem-pyvista layer) has as many values as the DEM has cells.
C9_OverlayCellCount ==
    /\ (script = "watershed3d" /\ pc # "start") =>
          \A n \in DOMAIN grid.data :
              Cardinality(DOMAIN grid.data[n]) = Ny * Nx
    /\ script = "dem_pyvista" =>
          \A k \in 1..Len(layers) :
              Cardinality(DOMAIN layers[k].data["values"]) = Ny * Nx

C9_Witness ==
    /\ Interactive
    /\ files.nlcd = CoarseOverlay /\ files.cdl = FineOverlay
    /\ DOMAIN grid.data = {"Elevation", "NLCD", "CDL", "Runoff"}
    /\ Cardinality(DOMAIN grid.data["NLCD"]) = DemRows * DemCols

\* C10: while the window is open, a step that changes the scene or a button
\* leaves every mesh point as it was, and a step that moves the mesh points
\* leaves the scene and every button as they were.
C10_SliderAndButtonsIndependent ==
    [][(Interactive /\ pc = "show" /\ pc' = "show") =>
          /\ (plotter' # plotter \/ widgets' # widgets
                \/ lastEvent'.button # lastEvent.button)
                => grid' = grid
          /\ (grid' # grid \/ lastEvent'.value # lastEvent.value)
                => (plotter' = plotter /\ widgets' = widgets)]_vars

C10_Witness ==
    /\ Interactive /\ pc = "show"
    /\ lastEvent.kind = "click" /\ lastEvent.button = "Runoff"
    /\ lastEvent.value = SliderMax /\ args.scale_z = DefaultScale
    /\ plotter.actors[1].scalars = "Runoff"
    /\ grid.points[1][3] = files.dem.data[1][1] * SliderMax

====
